---------------------------- MODULE Spec2Model ----------------------------
(***************************************************************************)
(* TAF container (Taffy::Asset, src/asset.h) and the streaming loader      *)
(* (Taffy::StreamingTaffyLoader, src/taffy_streaming.cpp).                 *)
(*                                                                         *)
(* Spec        : one Asset object and one path of the file system.         *)
(* SpecLoader  : one StreamingTaffyLoader used by several threads.         *)
(*                                                                         *)
(* uint64_t arithmetic is kept modulo 2^WordBits (TLC integers are 32 bit  *)
(* wide, so the 64 bit word is scaled; every wrap-around of the code       *)
(* happens in the scaled word at the same place).                          *)
(***************************************************************************)
EXTENDS Integers, Sequences, FiniteSets, TLC

\* ------------------------------------------------------------------------
\* Bounds of the model
\* ------------------------------------------------------------------------
WordBits == 10
MaxPayloadLen == 1
MaxDir == 2
MaxCalls == 4

WordMod == 2 ^ WordBits

\* ------------------------------------------------------------------------
\* Program constants
\* ------------------------------------------------------------------------
HeaderSize == 360
EntrySize == 76
NameCap == 32
MaxVersionMajor == 100
MaxVersionMinor == 100
MaxVersionPatch == 1000
MaxChunkCount == 1000

Tags == {"GEOM", "SHDR"}
ByteVals == {0, 165}
Names == {<<103, 101, 111, 109>>}

Payloads == UNION {[1..n -> ByteVals] : n \in 0..MaxPayloadLen}

\* ------------------------------------------------------------------------
\* CRC32, bit-serial, on 32-bit words kept as tuples of bits (LSB first)
\* ------------------------------------------------------------------------
Bit(n, i) == (n \div (2 ^ i)) % 2

Word32(hi, lo) == [i \in 1..32 |-> IF i <= 16 THEN Bit(lo, i - 1) ELSE Bit(hi, i - 17)]

Xor32(a, b) == [i \in 1..32 |-> (a[i] + b[i]) % 2]

Shr1(a) == [i \in 1..32 |-> IF i < 32 THEN a[i + 1] ELSE 0]

Not32(a) == [i \in 1..32 |-> 1 - a[i]]

\* 0xEDB88320
CrcPoly == Word32(60856, 33568)

\* crc = (crc >> 1) ^ (0xEDB88320 * (crc & 1))
CrcShift(crc) == Xor32(Shr1(crc), IF crc[1] = 1 THEN CrcPoly ELSE Word32(0, 0))

RECURSIVE CrcBits(_, _)
CrcBits(crc, j) == IF j = 0 THEN crc ELSE CrcBits(CrcShift(crc), j - 1)

RECURSIVE CrcBytes(_, _, _)
CrcBytes(crc, data, i) ==
    IF i > Len(data) THEN crc
    ELSE CrcBytes(CrcBits(Xor32(crc, Word32(0, data[i])), 8), data, i + 1)

RECURSIVE HalfValue(_, _, _)
HalfValue(w, from, n) == IF n = 0 THEN 0 ELSE w[from] + 2 * HalfValue(w, from + 1, n - 1)

\* the 32-bit result as its two 16-bit halves
calculate_crc32(data) ==
    LET w == Not32(CrcBytes(Word32(65535, 65535), data, 1))
    IN  [hi |-> HalfValue(w, 17, 16), lo |-> HalfValue(w, 1, 16)]

\* the same function, tabulated once for the byte strings the model reads
Crc32Table ==
    { <<d, calculate_crc32(d)>> :
        d \in UNION {[1..n -> ByteVals] : n \in 0..(MaxDir * MaxPayloadLen)} }

Crc32(data) ==
    IF \E p \in Crc32Table : p[1] = data
    THEN (CHOOSE p \in Crc32Table : p[1] = data)[2]
    ELSE calculate_crc32(data)

\* ------------------------------------------------------------------------
\* Asset: state
\* ------------------------------------------------------------------------
VARIABLES header_, chunk_directory_, chunk_data_, disk, saved, fresh, last, calls

assetVars == <<header_, chunk_directory_, chunk_data_, disk, saved, fresh, last, calls>>

\* StreamingTaffyLoader: state, the threads' positions in their calls, and the
\* record of what each thread's last call returned
VARIABLES file_, filepath_, loader_header_, directory_, chunk_cache_, cache_hits_,
          cache_misses_, file_mutex_, cache_mutex_, pc, call, ret, ok_loads, lcalls,
          closed

loaderVars == <<file_, filepath_, loader_header_, directory_, chunk_cache_, cache_hits_,
                cache_misses_, file_mutex_, cache_mutex_, pc, call, ret, ok_loads, lcalls,
                closed>>

\* StreamingTaffyHandle objects, the loaders they own and the static registry
VARIABLES next_handle_id_, active_handles_, handle_mutex_, loaders, handles, hpc, hcall,
          issued, overwritten, hcalls

handleVars == <<next_handle_id_, active_handles_, handle_mutex_, loaders, handles, hpc,
                hcall, issued, overwritten, hcalls>>

\* ChunkedTaffyWriter: its members (file_, filepath_ and directory_ carry the
\* prefix writer_), the file at the path it writes, the payloads passed to it
\* since begin, and what its last call did
VARIABLES writer_file_, writer_filepath_, writer_directory_, chunk_count_,
          current_offset_, header_written_, wdisk, added, wlast, wcalls

writerVars == <<writer_file_, writer_filepath_, writer_directory_, chunk_count_,
                current_offset_, header_written_, wdisk, added, wlast, wcalls>>

\* an asset of src/include/taffy.h that overlays are applied to (asset), the
\* overlay object (overlay: an Overlay or an EnhancedOverlay), and what the last
\* call on either did
VARIABLES asset, overlay, olast, ocalls

overlayVars == <<asset, overlay, olast, ocalls>>

\* what an operation of the loader, of the container, of the handles, of the
\* writer and of the overlays leaves alone
notLoader == <<assetVars, handleVars, writerVars, overlayVars>>

notAsset == <<loaderVars, handleVars, writerVars, overlayVars>>

notHandles == <<assetVars, loaderVars, writerVars, overlayVars>>

notWriter == <<assetVars, loaderVars, handleVars, overlayVars>>

notOverlay == <<assetVars, loaderVars, handleVars, writerVars>>

vars == <<assetVars, loaderVars, handleVars, writerVars, overlayVars>>

\* strncpy(entry.name, name.c_str(), sizeof(entry.name) - 1) into a zeroed array
CopyName(name) == SubSeq(name, 1, IF Len(name) < NameCap - 1 THEN Len(name) ELSE NameCap - 1)

create_chunk_entry(type, size, name) ==
    [type |-> type, flags |-> 0, offset |-> 0, size |-> size,
     checksum |-> [hi |-> 0, lo |-> 0], name |-> CopyName(name)]

\* a value-initialised ChunkDirectoryEntry (vector::resize)
ZeroEntry ==
    [type |-> "0", flags |-> 0, offset |-> 0, size |-> 0,
     checksum |-> [hi |-> 0, lo |-> 0], name |-> <<>>]

DefaultHeader ==
    [magic |-> "TAF!", version_major |-> 1, version_minor |-> 0, version_patch |-> 0,
     feature_flags |-> 0, chunk_count |-> 0, total_size |-> HeaderSize]

EmptyMap == [t \in {} |-> <<>>]

NoFile == [exists |-> FALSE, short |-> FALSE, header |-> DefaultHeader,
           dir |-> <<>>, body |-> <<>>, intact |-> FALSE]

\* what the last call did: its result, the early return it took, whether it
\* opened the path for writing, the buffers it requested, the payloads it read,
\* whether the file it was given had an entry outside the file, and whether that
\* file was the one the last completed save wrote
NoCall == [op |-> "none", ok |-> "true", why |-> "", opened |-> FALSE, alloc |-> <<>>,
           loaded |-> EmptyMap, outside |-> FALSE, intact |-> FALSE, size |-> 0,
           tag |-> ""]

NoSnapshot == [valid |-> FALSE, header |-> DefaultHeader, dir |-> <<>>, data |-> EmptyMap,
               fresh |-> FALSE]

InitAsset ==
    /\ header_ = DefaultHeader
    /\ chunk_directory_ = <<>>
    /\ chunk_data_ = EmptyMap
    /\ disk = NoFile
    /\ saved = NoSnapshot
    /\ fresh = TRUE
    /\ last = NoCall
    /\ calls = 0

\* ------------------------------------------------------------------------
\* Asset::add_chunk
\* ------------------------------------------------------------------------
MapPut(m, k, v) == [x \in (DOMAIN m) \cup {k} |-> IF x = k THEN v ELSE m[x]]

\* one more call of the interface, while the budget of calls lasts
Call == calls < MaxCalls /\ calls' = calls + 1

AddChunk(type, data, name) ==
    /\ Call
    /\ Len(chunk_directory_) < MaxDir
    /\ chunk_data_' = MapPut(chunk_data_, type, data)
    /\ LET entry == [create_chunk_entry(type, Len(data), name)
                        EXCEPT !.checksum = Crc32(data)]
       IN  /\ chunk_directory_' = Append(chunk_directory_, entry)
           /\ header_' = [header_ EXCEPT !.chunk_count = Len(chunk_directory_) + 1]
    /\ last' = [NoCall EXCEPT !.op = "add_chunk"]
    /\ UNCHANGED <<disk, saved, fresh>>
    /\ UNCHANGED notAsset

has_chunk(type) == type \in DOMAIN chunk_data_


\* ------------------------------------------------------------------------
\* Files: header, directory slots and payload area of the file at the path
\* ------------------------------------------------------------------------
BodyStart(f) == HeaderSize + Len(f.dir) * EntrySize

FileSize(f) == IF f.short THEN 0 ELSE BodyStart(f) + Len(f.body)

\* the size bytes at absolute position off of the payload area
ReadAt(f, off, size) == SubSeq(f.body, off - BodyStart(f) + 1, off - BodyStart(f) + size)

RECURSIVE SumSizes(_, _)
SumSizes(dir, n) == IF n = 0 THEN 0 ELSE SumSizes(dir, n - 1) + dir[n].size

\* ------------------------------------------------------------------------
\* Asset::save_to_file
\* ------------------------------------------------------------------------
\* The pre-save validation with the payload-map comparison dropped.
IntegrityOk_DirOnly(h, dir, data) ==
    h.chunk_count = Len(dir)

IntegrityOk(h, dir, data) ==
    /\ h.chunk_count = Len(dir)
    /\ h.chunk_count = Cardinality(DOMAIN data)

\* entry.offset = current_offset; current_offset += entry.size   (uint64_t)
OffsetOf(dir, i) == (HeaderSize + Len(dir) * EntrySize + SumSizes(dir, i - 1)) % WordMod

LaidOut(dir) == [i \in 1..Len(dir) |-> [dir[i] EXCEPT !.offset = OffsetOf(dir, i)]]

\* the payload loop: pos is file.tellp(), body the payload bytes written so far
RECURSIVE WritePayloads(_, _, _, _, _)
WritePayloads(dir, data, i, pos, body) ==
    IF i > Len(dir) THEN [ok |-> "true", why |-> "", body |-> body]
    ELSE IF dir[i].type \notin DOMAIN data
         THEN [ok |-> "false", why |-> "missing", body |-> body]
    ELSE IF pos # dir[i].offset
         THEN [ok |-> "false", why |-> "offset", body |-> body]
    ELSE WritePayloads(dir, data, i + 1, pos + Len(data[dir[i].type]),
                       body \o data[dir[i].type])

SaveToFile ==
    /\ Call
    /\ UNCHANGED notAsset
    /\ IF ~IntegrityOk(header_, chunk_directory_, chunk_data_)
       THEN /\ last' = [NoCall EXCEPT !.op = "save_to_file", !.ok = "false",
                                      !.why = "count"]
            /\ UNCHANGED <<header_, chunk_directory_, chunk_data_, disk, saved, fresh>>
       ELSE LET dir == LaidOut(chunk_directory_)
                hdr == [header_ EXCEPT !.total_size =
                           OffsetOf(chunk_directory_, Len(chunk_directory_) + 1)]
                w   == WritePayloads(dir, chunk_data_, 1,
                                     HeaderSize + Len(dir) * EntrySize, <<>>)
            IN  /\ chunk_directory_' = dir
                /\ header_' = hdr
                /\ disk' = [exists |-> TRUE, short |-> FALSE, header |-> hdr, dir |-> dir,
                            body |-> w.body, intact |-> (w.ok = "true")]
                /\ saved' = IF w.ok = "true"
                            THEN [valid |-> TRUE, header |-> hdr, dir |-> dir,
                                  data |-> chunk_data_, fresh |-> fresh]
                            ELSE NoSnapshot
                /\ last' = [NoCall EXCEPT !.op = "save_to_file", !.ok = w.ok,
                                          !.why = w.why, !.opened = TRUE]
                /\ UNCHANGED <<chunk_data_, fresh>>

\* ------------------------------------------------------------------------
\* Asset::load_from_file_safe
\* ------------------------------------------------------------------------
HeaderValid(h, file_size) ==
    /\ h.magic = "TAF!"
    /\ ~(h.version_major > MaxVersionMajor \/ h.version_minor > MaxVersionMinor
            \/ h.version_patch > MaxVersionPatch)
    /\ ~(h.chunk_count > MaxChunkCount)
    /\ ~(h.total_size # file_size)

\* entry.offset >= file_size || entry.offset + entry.size > file_size   (uint64_t)
EntryOutside(e, file_size) ==
    \/ e.offset >= file_size
    \/ (e.offset + e.size) % WordMod > file_size

\* std::vector<uint8_t>::max_size() is PTRDIFF_MAX, half the word
MaxAlloc == (WordMod \div 2) - 1

\* the chunk loop: data is chunk_data_ so far, alloc the buffers requested
RECURSIVE ReadChunks(_, _, _, _, _)
ReadChunks(f, dir, i, data, alloc) ==
    IF i > Len(dir) THEN [ok |-> "true", why |-> "", data |-> data, alloc |-> alloc]
    ELSE LET e   == dir[i]
             req == Append(alloc, [offset |-> e.offset, size |-> e.size])
         IN  IF e.size > MaxAlloc
             THEN [ok |-> "threw", why |-> "length_error", data |-> data, alloc |-> req]
             ELSE LET bytes == ReadAt(f, e.offset, e.size)
                  IN  IF Crc32(bytes) # e.checksum
                      THEN [ok |-> "false", why |-> "checksum", data |-> data,
                            alloc |-> req]
                      ELSE ReadChunks(f, dir, i + 1, MapPut(data, e.type, bytes), req)

\* an entry of the directory of f lies outside f, in unbounded arithmetic
HasOutsideEntry(f) ==
    \E i \in 1..Len(f.dir) :
        i <= f.header.chunk_count
        /\ (f.dir[i].offset >= FileSize(f) \/ f.dir[i].offset + f.dir[i].size > FileSize(f))

LoadCall(f, ok, why) ==
    [NoCall EXCEPT !.op = "load_from_file_safe", !.ok = ok, !.why = why,
                   !.outside = HasOutsideEntry(f), !.intact = f.intact,
                   !.size = FileSize(f)]

LoadFromFileSafe(f) ==
    LET file_size == FileSize(f)
        n         == f.header.chunk_count
        bad       == {i \in 1..n : EntryOutside(f.dir[i], file_size)}
        firstBad  == CHOOSE i \in bad : \A j \in bad : i <= j
    IN
    /\ Call
    /\ UNCHANGED <<disk, saved>>
    /\ UNCHANGED notAsset
    /\ IF ~f.exists
       THEN /\ last' = LoadCall(f, "false", "open")
            /\ UNCHANGED <<header_, chunk_directory_, chunk_data_, fresh>>
       ELSE IF file_size < HeaderSize
       THEN /\ last' = LoadCall(f, "false", "small")
            /\ UNCHANGED <<header_, chunk_directory_, chunk_data_, fresh>>
       ELSE IF ~HeaderValid(f.header, file_size)
       THEN /\ last' = LoadCall(f, "false", "header")
            /\ UNCHANGED <<header_, chunk_directory_, chunk_data_, fresh>>
       ELSE IF n * EntrySize > file_size - HeaderSize
       THEN /\ header_' = f.header
            /\ fresh' = FALSE
            /\ last' = LoadCall(f, "false", "directory")
            /\ UNCHANGED <<chunk_directory_, chunk_data_>>
       ELSE IF bad # {}
       THEN /\ header_' = f.header
            /\ chunk_directory_' =
                  [i \in 1..n |-> IF i <= firstBad THEN f.dir[i] ELSE ZeroEntry]
            /\ fresh' = FALSE
            /\ last' = LoadCall(f, "false", "bounds")
            /\ UNCHANGED chunk_data_
       ELSE LET r == ReadChunks(f, [i \in 1..n |-> f.dir[i]], 1, EmptyMap, <<>>)
            IN  /\ header_' = f.header
                /\ chunk_directory_' = [i \in 1..n |-> f.dir[i]]
                /\ chunk_data_' = r.data
                /\ fresh' = FALSE
                /\ last' = [LoadCall(f, r.ok, r.why) EXCEPT !.alloc = r.alloc,
                                                            !.loaded = r.data]

\* ------------------------------------------------------------------------
\* The files given to load_from_file_safe besides the one save_to_file wrote:
\* those one edit away from it
\* ------------------------------------------------------------------------
OffsetEdits(f) == {FileSize(f) - 1, FileSize(f)}

SizeEdits(f) == {0, 2, WordMod - 1}

OtherByte(b) == IF b = 0 THEN 165 ELSE 0

HeaderEdits(f) ==
    { [f EXCEPT !.header.magic = "XAF!"],
      [f EXCEPT !.header.version_major = MaxVersionMajor + 1],
      [f EXCEPT !.header.chunk_count = MaxChunkCount + 1],
      [f EXCEPT !.header.chunk_count = @ + 1],
      [f EXCEPT !.header.total_size = @ + 1],
      [f EXCEPT !.short = TRUE] }

EntryEdits(f) ==
    UNION { {[f EXCEPT !.dir[i].offset = v] : v \in OffsetEdits(f)}
              \cup {[f EXCEPT !.dir[i].size = v] : v \in SizeEdits(f)}
              \cup {[f EXCEPT !.dir[i].checksum.lo = (@ + 1) % 65536]}
              \cup {[f EXCEPT !.dir[i].type = t] : t \in Tags}
            : i \in 1..Len(f.dir) }

BodyEdits(f) == {[f EXCEPT !.body[j] = OtherByte(@)] : j \in 1..Len(f.body)}

Edits(f) == (HeaderEdits(f) \cup EntryEdits(f) \cup BodyEdits(f)) \ {f}

\* the files load_from_file_safe is called on: the file at the path, or a file
\* one edit away from it
FilesToLoad ==
    {disk} \cup (IF disk.exists THEN {[g EXCEPT !.intact = FALSE] : g \in Edits(disk)}
                 ELSE {})

\* ------------------------------------------------------------------------
\* StreamingTaffyLoader: the files it is opened on
\* ------------------------------------------------------------------------
Threads == {1, 2}

MaxLoaderCalls == 5

MiB == 1024 * 1024

\* while (total_cache_size > 50 * 1024 * 1024 && ...)
CacheLimit == 50 * 1024 * 1024

Paths == {"A", "B", "X", "N"}

\* a directory of n entries laid out back to back after header and directory
RECURSIVE SumSeq(_, _)
SumSeq(q, n) == IF n = 0 THEN 0 ELSE SumSeq(q, n - 1) + q[n]

Contiguous(sizes) ==
    [i \in 1..Len(sizes) |->
        [offset |-> HeaderSize + Len(sizes) * EntrySize + SumSeq(sizes, i - 1),
         size |-> sizes[i]]]

\* A: three chunks of 30 MiB.  B: two chunks, the file cut short inside the
\* second.  X: not a TAF file.  N: no such file.
\* version and total_size are the header's fields; size is the file's length.
LoaderFiles ==
    [p \in Paths |->
        CASE p = "A" -> [exists |-> TRUE, magic |-> "TAF!", version |-> <<1, 0, 0>>,
                         dir |-> Contiguous(<<30 * MiB, 30 * MiB, 30 * MiB>>),
                         total_size |-> HeaderSize + 3 * EntrySize + 90 * MiB,
                         size |-> HeaderSize + 3 * EntrySize + 90 * MiB]
          [] p = "B" -> [exists |-> TRUE, magic |-> "TAF!", version |-> <<1, 0, 0>>,
                         dir |-> Contiguous(<<10 * MiB, 30 * MiB>>),
                         total_size |-> HeaderSize + 2 * EntrySize + 40 * MiB,
                         size |-> HeaderSize + 2 * EntrySize + 20 * MiB]
          [] p = "X" -> [exists |-> TRUE, magic |-> "RIFF", version |-> <<1, 0, 0>>,
                         dir |-> Contiguous(<<MiB>>),
                         total_size |-> HeaderSize + EntrySize + MiB,
                         size |-> HeaderSize + EntrySize + MiB]
          [] OTHER   -> [exists |-> FALSE, magic |-> "", version |-> <<0, 0, 0>>,
                         dir |-> <<>>, total_size |-> 0, size |-> 0]]

\* file_.read(&header_, sizeof(header_))
ReadHeader(f) ==
    [magic |-> f.magic, chunk_count |-> Len(f.dir), version |-> f.version,
     total_size |-> f.total_size]

\* the bytes of a file are kept as the place they were read from
BytesAt(p, offset, size) == [file |-> p, offset |-> offset, size |-> size]

NoData == [file |-> "", offset |-> 0, size |-> 0]

Empty(data) == data.size = 0

NoRet == [op |-> "none", ok |-> FALSE, index |-> 0, data |-> NoData, expect |-> NoData,
          evicted |-> <<>>, hits |-> 0, misses |-> 0, path |-> "", is_open |-> FALSE]

NoLoaderCall == [op |-> "none", index |-> 0, data |-> NoData]

InitLoader ==
    /\ file_ = [open |-> FALSE, fail |-> FALSE]
    /\ filepath_ = ""
    /\ loader_header_ = [magic |-> "", chunk_count |-> 0, version |-> <<0, 0, 0>>,
                         total_size |-> 0]
    /\ directory_ = <<>>
    /\ chunk_cache_ = [i \in {} |-> [data |-> NoData, access_count |-> 0]]
    /\ cache_hits_ = 0
    /\ cache_misses_ = 0
    /\ file_mutex_ = 0
    /\ cache_mutex_ = 0
    /\ pc = [t \in Threads |-> "idle"]
    /\ call = [t \in Threads |-> NoLoaderCall]
    /\ ret = [t \in Threads |-> NoRet]
    /\ ok_loads = 0
    /\ lcalls = 0
    /\ closed = FALSE

\* thread t enters a call, while the budget of calls lasts
Enter(t) == pc[t] = "idle" /\ lcalls < MaxLoaderCalls /\ lcalls' = lcalls + 1

\* thread t returns
Return(t, r) ==
    /\ pc' = [pc EXCEPT ![t] = "idle"]
    /\ call' = [call EXCEPT ![t] = NoLoaderCall]
    /\ ret' = [ret EXCEPT ![t] = r]

\* ------------------------------------------------------------------------
\* StreamingTaffyLoader::open, wholly under file_mutex_
\* ------------------------------------------------------------------------
NoEntry == [offset |-> 0, size |-> 0]

\* directory_.resize(n)
Resize(dir, n) == [i \in 1..n |-> IF i <= Len(dir) THEN dir[i] ELSE NoEntry]

Indices == 0..2

Open(t, p) ==
    LET f == LoaderFiles[p]
        n == Len(f.dir)
        whole == (f.size - HeaderSize) \div EntrySize
        result(ok) == [NoRet EXCEPT !.op = "open", !.ok = ok, !.path = p, !.is_open = ok]
    IN
    /\ Enter(t)
    /\ file_mutex_ = 0
    /\ filepath_' = p
    /\ IF ~f.exists
       THEN /\ file_' = [open |-> FALSE, fail |-> TRUE]
            /\ UNCHANGED <<loader_header_, directory_>>
            /\ Return(t, result(FALSE))
       ELSE IF f.magic # "TAF!"
       THEN /\ file_' = [open |-> FALSE, fail |-> FALSE]
            /\ loader_header_' = ReadHeader(f)
            /\ UNCHANGED directory_
            /\ Return(t, result(FALSE))
       ELSE IF HeaderSize + n * EntrySize > f.size
       THEN /\ file_' = [open |-> FALSE, fail |-> TRUE]
            /\ loader_header_' = ReadHeader(f)
            /\ directory_' = [i \in 1..n |-> IF i <= whole THEN f.dir[i]
                                              ELSE Resize(directory_, n)[i]]
            /\ Return(t, result(FALSE))
       ELSE /\ file_' = [open |-> TRUE, fail |-> FALSE]
            /\ loader_header_' = ReadHeader(f)
            /\ directory_' = f.dir
            /\ Return(t, result(TRUE))
    /\ UNCHANGED <<chunk_cache_, cache_hits_, cache_misses_, file_mutex_, cache_mutex_,
                   ok_loads>>
    /\ closed' = FALSE
    /\ UNCHANGED notLoader

\* ------------------------------------------------------------------------
\* StreamingTaffyLoader::clearCache, getCacheStats and close
\* ------------------------------------------------------------------------
EmptyCache == [i \in {} |-> [data |-> NoData, access_count |-> 0]]

ClearCache(t) ==
    /\ Enter(t)
    /\ cache_mutex_ = 0
    /\ chunk_cache_' = EmptyCache
    /\ cache_hits_' = 0
    /\ cache_misses_' = 0
    /\ Return(t, [NoRet EXCEPT !.op = "clear_cache", !.ok = TRUE])
    /\ UNCHANGED <<file_, filepath_, loader_header_, directory_, file_mutex_,
                   cache_mutex_, ok_loads>>
    /\ UNCHANGED closed
    /\ UNCHANGED notLoader

GetCacheStats(t) ==
    /\ Enter(t)
    /\ cache_mutex_ = 0
    /\ Return(t, [NoRet EXCEPT !.op = "cache_stats", !.ok = TRUE,
                               !.hits = cache_hits_, !.misses = cache_misses_])
    /\ UNCHANGED <<file_, filepath_, loader_header_, directory_, chunk_cache_,
                   cache_hits_, cache_misses_, file_mutex_, cache_mutex_, ok_loads>>
    /\ UNCHANGED closed
    /\ UNCHANGED notLoader

\* close: takes file_mutex_, closes the file, clears the directory
Close(t) ==
    /\ Enter(t)
    /\ file_mutex_ = 0
    /\ file_mutex_' = t
    /\ file_' = [file_ EXCEPT !.open = FALSE]
    /\ directory_' = <<>>
    /\ pc' = [pc EXCEPT ![t] = "close_clear"]
    /\ call' = [call EXCEPT ![t] = [NoLoaderCall EXCEPT !.op = "close"]]
    /\ ret' = [ret EXCEPT ![t] = NoRet]
    /\ UNCHANGED <<filepath_, loader_header_, chunk_cache_, cache_hits_, cache_misses_,
                   cache_mutex_, ok_loads>>
    /\ UNCHANGED closed
    /\ UNCHANGED notLoader

\* close: calls clearCache, which takes cache_mutex_ while file_mutex_ is held
CloseClearCache(t) ==
    /\ pc[t] = "close_clear"
    /\ cache_mutex_ = 0
    /\ cache_mutex_' = t
    /\ chunk_cache_' = EmptyCache
    /\ cache_hits_' = 0
    /\ cache_misses_' = 0
    /\ pc' = [pc EXCEPT ![t] = "close_unlock"]
    /\ UNCHANGED <<file_, filepath_, loader_header_, directory_, file_mutex_, call, ret,
                   ok_loads, lcalls>>
    /\ UNCHANGED closed
    /\ UNCHANGED notLoader

\* close: both lock_guards are released and the call returns
CloseReturn(t) ==
    /\ pc[t] = "close_unlock"
    /\ cache_mutex_' = 0
    /\ file_mutex_' = 0
    /\ Return(t, [NoRet EXCEPT !.op = "close", !.ok = TRUE])
    /\ UNCHANGED <<file_, filepath_, loader_header_, directory_, chunk_cache_,
                   cache_hits_, cache_misses_, ok_loads, lcalls>>
    /\ closed' = TRUE
    /\ UNCHANGED notLoader

\* ------------------------------------------------------------------------
\* StreamingTaffyLoader::loadChunk(uint32_t)
\* ------------------------------------------------------------------------
\* the bytes of directory entry index of the file that is open
Expected(index) ==
    IF file_.open /\ filepath_ \in Paths /\ index < Len(LoaderFiles[filepath_].dir)
    THEN BytesAt(filepath_, LoaderFiles[filepath_].dir[index + 1].offset,
                 LoaderFiles[filepath_].dir[index + 1].size)
    ELSE NoData

LoadResult(index, ok, data, log) ==
    [NoRet EXCEPT !.op = "load_chunk", !.ok = ok, !.index = index, !.data = data,
                  !.expect = Expected(index), !.evicted = log]

\* the index check, made without a lock
LoadChunkBegin(t, index) ==
    /\ Enter(t)
    /\ IF index >= Len(directory_)
       THEN Return(t, LoadResult(index, FALSE, NoData, <<>>))
       ELSE /\ pc' = [pc EXCEPT ![t] = "lc_cache"]
            /\ call' = [call EXCEPT ![t] = [op |-> "load_chunk", index |-> index,
                                            data |-> NoData]]
            /\ ret' = [ret EXCEPT ![t] = NoRet]
    /\ UNCHANGED <<file_, filepath_, loader_header_, directory_, chunk_cache_,
                   cache_hits_, cache_misses_, file_mutex_, cache_mutex_, ok_loads>>
    /\ UNCHANGED closed
    /\ UNCHANGED notLoader

\* a lookup that goes on to loadChunkInternal with cache_mutex_ still held
LoadChunkLookup_HoldsCache(t) ==
    LET index == call[t].index
    IN
    /\ pc[t] = "lc_cache"
    /\ cache_mutex_ = 0
    /\ IF index \in DOMAIN chunk_cache_
       THEN /\ cache_hits_' = cache_hits_ + 1
            /\ chunk_cache_' = [chunk_cache_ EXCEPT ![index].access_count = @ + 1]
            /\ ok_loads' = ok_loads + 1
            /\ Return(t, LoadResult(index, TRUE, chunk_cache_[index].data, <<>>))
            /\ UNCHANGED <<cache_misses_, cache_mutex_>>
       ELSE /\ cache_misses_' = cache_misses_ + 1
            /\ cache_mutex_' = t
            /\ pc' = [pc EXCEPT ![t] = "lc_read"]
            /\ UNCHANGED <<chunk_cache_, cache_hits_, ok_loads, call, ret>>
    /\ UNCHANGED <<file_, filepath_, loader_header_, directory_, file_mutex_, lcalls>>
    /\ UNCHANGED closed
    /\ UNCHANGED notLoader

\* the cache lookup under cache_mutex_
LoadChunkLookup(t) ==
    LET index == call[t].index
    IN
    /\ pc[t] = "lc_cache"
    /\ cache_mutex_ = 0
    /\ IF index \in DOMAIN chunk_cache_
       THEN /\ cache_hits_' = cache_hits_ + 1
            /\ chunk_cache_' = [chunk_cache_ EXCEPT ![index].access_count = @ + 1]
            /\ ok_loads' = ok_loads + 1
            /\ Return(t, LoadResult(index, TRUE, chunk_cache_[index].data, <<>>))
            /\ UNCHANGED cache_misses_
       ELSE /\ cache_misses_' = cache_misses_ + 1
            /\ pc' = [pc EXCEPT ![t] = "lc_read"]
            /\ UNCHANGED <<chunk_cache_, cache_hits_, ok_loads, call, ret>>
    /\ UNCHANGED <<file_, filepath_, loader_header_, directory_, file_mutex_,
                   cache_mutex_, lcalls>>
    /\ UNCHANGED closed
    /\ UNCHANGED notLoader

\* directory_[index]; past the end of the vector the read is undefined and
\* yields the entry of any file or a zeroed one
EntryAt(index) ==
    IF index < Len(directory_) THEN {directory_[index + 1]}
    ELSE {NoEntry} \cup UNION {{LoaderFiles[p].dir[i] : i \in 1..Len(LoaderFiles[p].dir)}
                                 : p \in Paths}

\* seekg and read of the entry's range succeed
ReadSucceeds(entry) ==
    /\ ~file_.fail
    /\ entry.offset + entry.size <= LoaderFiles[filepath_].size

\* loadChunkInternal under file_mutex_; an empty result is returned at once
LoadChunkInternal(t) ==
    LET index == call[t].index
    IN
    /\ pc[t] = "lc_read"
    /\ file_mutex_ = 0
    /\ IF ~file_.open
       THEN /\ Return(t, LoadResult(index, FALSE, NoData, <<>>))
            /\ UNCHANGED file_
       ELSE \E entry \in EntryAt(index) :
              IF ReadSucceeds(entry) /\ entry.size > 0
              THEN /\ pc' = [pc EXCEPT ![t] = "lc_insert"]
                   /\ call' = [call EXCEPT ![t].data =
                                  BytesAt(filepath_, entry.offset, entry.size)]
                   /\ UNCHANGED <<file_, ret>>
              ELSE /\ file_' = [file_ EXCEPT !.fail = ~ReadSucceeds(entry)]
                   /\ Return(t, LoadResult(index, FALSE, NoData, <<>>))
    /\ UNCHANGED <<filepath_, loader_header_, directory_, chunk_cache_, cache_hits_,
                   cache_misses_, file_mutex_, cache_mutex_, ok_loads, lcalls>>
    /\ UNCHANGED closed
    /\ UNCHANGED notLoader

RECURSIVE CacheBytesOf(_, _)
CacheBytesOf(cache, keys) ==
    IF keys = {} THEN 0
    ELSE LET k == CHOOSE x \in keys : TRUE
         IN  cache[k].data.size + CacheBytesOf(cache, keys \ {k})

CacheBytes(cache) == CacheBytesOf(cache, DOMAIN cache)

\* the entry the scan stops at: the first of least access_count in the
\* iteration order of the unordered_map, which is unspecified
Victims(cache) ==
    {k \in DOMAIN cache : \A j \in DOMAIN cache :
        cache[k].access_count <= cache[j].access_count}

\* the eviction loop: every cache it can leave, with the entries it removed
RECURSIVE Evict(_, _)
Evict(cache, log) ==
    IF CacheBytes(cache) > CacheLimit /\ DOMAIN cache # {}
    THEN UNION { Evict([i \in (DOMAIN cache) \ {k} |-> cache[i]],
                       Append(log, [victim |-> k,
                                    counts |-> [i \in DOMAIN cache |->
                                                   cache[i].access_count]]))
                 : k \in Victims(cache) }
    ELSE {[cache |-> cache, log |-> log]}

\* eviction and insertion under cache_mutex_
LoadChunkInsert(t) ==
    LET index == call[t].index
        data  == call[t].data
    IN
    /\ pc[t] = "lc_insert"
    /\ cache_mutex_ = 0
    /\ \E o \in Evict(chunk_cache_, <<>>) :
          /\ chunk_cache_' = MapPut(o.cache, index, [data |-> data, access_count |-> 1])
          /\ Return(t, LoadResult(index, TRUE, data, o.log))
    /\ ok_loads' = ok_loads + 1
    /\ UNCHANGED <<file_, filepath_, loader_header_, directory_, cache_hits_,
                   cache_misses_, file_mutex_, cache_mutex_, lcalls>>
    /\ UNCHANGED closed
    /\ UNCHANGED notLoader

\* ------------------------------------------------------------------------
\* StreamingTaffyHandle and StreamingTaffyLoader::createHandle
\* ------------------------------------------------------------------------
MaxHandleCalls == 5

\* the handle objects of the program: two variables in each thread
Slots == Threads \X {1, 2}

\* StreamingTaffyHandle() = default: loader_ null (0), handle_id_ = 0
NullHandle == [live |-> TRUE, loader_ |-> 0, handle_id_ |-> 0]

NoHandle == [live |-> FALSE, loader_ |-> 0, handle_id_ |-> 0]

NoHandleCall == [op |-> "none", loader |-> 0, slot |-> <<0, 0>>, from |-> <<0, 0>>]

InitHandles ==
    /\ next_handle_id_ = 1
    /\ active_handles_ = [i \in {} |-> 0]
    /\ handle_mutex_ = 0
    /\ loaders = <<>>
    /\ handles = [s \in Slots |-> NoHandle]
    /\ hpc = [t \in Threads |-> "idle"]
    /\ hcall = [t \in Threads |-> NoHandleCall]
    /\ issued = <<>>
    /\ overwritten = FALSE
    /\ hcalls = 0

HEnter(t) == hpc[t] = "idle" /\ hcalls < MaxHandleCalls /\ hcalls' = hcalls + 1

\* open() of a loader made for one handle: as Open above, on a loader no other
\* thread has
OpensOk(p) ==
    LET f == LoaderFiles[p]
    IN  f.exists /\ f.magic = "TAF!" /\ HeaderSize + Len(f.dir) * EntrySize <= f.size

\* ~StreamingTaffyLoader: close()
LoaderDestroy(l) == [l EXCEPT !.destroyed = TRUE, !.file_open = FALSE]

\* a shared_ptr to loader k is reset or goes out of scope
ReleaseRef(ls, k) ==
    IF k = 0 THEN ls
    ELSE IF ls[k].strong = 1
         THEN [ls EXCEPT ![k] = LoaderDestroy([@ EXCEPT !.strong = 0])]
         ELSE [ls EXCEPT ![k].strong = @ - 1]

\* next_handle_id_++
NextHandleId_Same(id) == id

NextHandleId(id) == id + 1

\* active_handles_.erase(handle_id_)
Erase_Nothing(reg, id) == reg

Erase(reg, id) == [i \in (DOMAIN reg) \ {id} |-> reg[i]]

\* createHandle: make_shared, open, and on failure the return of an empty handle
CreateHandleBegin(t, p, slot) ==
    LET k == Len(loaders) + 1
        made == [strong |-> 1, destroyed |-> FALSE, file_open |-> OpensOk(p),
                 opened |-> OpensOk(p)]
    IN
    /\ HEnter(t)
    /\ slot[1] = t /\ ~handles[slot].live
    /\ IF ~OpensOk(p)
       THEN /\ loaders' = ReleaseRef(Append(loaders, made), k)
            /\ handles' = [handles EXCEPT ![slot] = NullHandle]
            /\ UNCHANGED <<hpc, hcall>>
       ELSE \* handle.loader_ = loader
            /\ loaders' = Append(loaders, [made EXCEPT !.strong = 2])
            /\ hpc' = [hpc EXCEPT ![t] = "ch_register"]
            /\ hcall' = [hcall EXCEPT ![t] = [NoHandleCall EXCEPT !.op = "create_handle",
                                                  !.loader = k, !.slot = slot]]
            /\ UNCHANGED handles
    /\ UNCHANGED <<next_handle_id_, active_handles_, handle_mutex_, issued, overwritten>>
    /\ UNCHANGED notHandles

\* createHandle: under handle_mutex_ the id is taken and the loader registered;
\* the handle is returned and the local shared_ptr goes out of scope
CreateHandleRegister(t) ==
    LET k == hcall[t].loader
        id == next_handle_id_
    IN
    /\ hpc[t] = "ch_register"
    /\ handle_mutex_ = 0
    /\ next_handle_id_' = NextHandleId(next_handle_id_)
    /\ active_handles_' = MapPut(active_handles_, id, k)
    /\ issued' = Append(issued, id)
    /\ overwritten' = (overwritten \/ id \in DOMAIN active_handles_)
    /\ handles' = [handles EXCEPT ![hcall[t].slot] =
                      [live |-> TRUE, loader_ |-> k, handle_id_ |-> id]]
    /\ loaders' = ReleaseRef(loaders, k)
    /\ hpc' = [hpc EXCEPT ![t] = "idle"]
    /\ hcall' = [hcall EXCEPT ![t] = NoHandleCall]
    /\ UNCHANGED <<handle_mutex_, hcalls>>
    /\ UNCHANGED notHandles

\* StreamingTaffyHandle(StreamingTaffyHandle&& other)
MoveConstruct(t, from, to) ==
    /\ HEnter(t)
    /\ from[1] = t /\ to[1] = t /\ from # to
    /\ handles[from].live /\ ~handles[to].live
    /\ handles' = [handles EXCEPT ![to] = handles[from], ![from] = NullHandle]
    /\ UNCHANGED <<next_handle_id_, active_handles_, handle_mutex_, loaders, hpc, hcall,
                   issued, overwritten>>
    /\ UNCHANGED notHandles

\* the registry erase of the destructor and of move assignment, under
\* handle_mutex_ when the handle has a loader and an id
EraseOwn(t, slot) ==
    IF handles[slot].loader_ # 0 /\ handles[slot].handle_id_ # 0
    THEN /\ handle_mutex_ = 0
         /\ active_handles_' = Erase(active_handles_, handles[slot].handle_id_)
    ELSE UNCHANGED active_handles_

\* ~StreamingTaffyHandle: the erase
DestroyHandleBegin(t, slot) ==
    /\ HEnter(t)
    /\ slot[1] = t /\ handles[slot].live
    /\ EraseOwn(t, slot)
    /\ hpc' = [hpc EXCEPT ![t] = "hd_release"]
    /\ hcall' = [hcall EXCEPT ![t] = [NoHandleCall EXCEPT !.op = "destroy", !.slot = slot]]
    /\ UNCHANGED <<next_handle_id_, handle_mutex_, loaders, handles, issued, overwritten>>
    /\ UNCHANGED notHandles

\* ~StreamingTaffyHandle: the member loader_ is destroyed
DestroyHandleRelease(t) ==
    LET slot == hcall[t].slot
    IN
    /\ hpc[t] = "hd_release"
    /\ loaders' = ReleaseRef(loaders, handles[slot].loader_)
    /\ handles' = [handles EXCEPT ![slot] = NoHandle]
    /\ hpc' = [hpc EXCEPT ![t] = "idle"]
    /\ hcall' = [hcall EXCEPT ![t] = NoHandleCall]
    /\ UNCHANGED <<next_handle_id_, active_handles_, handle_mutex_, issued, overwritten,
                   hcalls>>
    /\ UNCHANGED notHandles

\* operator=(StreamingTaffyHandle&& other), this != &other: the erase
MoveAssignBegin(t, from, to) ==
    /\ HEnter(t)
    /\ from[1] = t /\ to[1] = t /\ from # to
    /\ handles[from].live /\ handles[to].live
    /\ EraseOwn(t, to)
    /\ hpc' = [hpc EXCEPT ![t] = "ma_take"]
    /\ hcall' = [hcall EXCEPT ![t] = [NoHandleCall EXCEPT !.op = "move_assign",
                                          !.slot = to, !.from = from]]
    /\ UNCHANGED <<next_handle_id_, handle_mutex_, loaders, handles, issued, overwritten>>
    /\ UNCHANGED notHandles

\* operator=: loader_ = std::move(other.loader_); the ids follow
MoveAssignTake(t) ==
    LET to == hcall[t].slot
        from == hcall[t].from
    IN
    /\ hpc[t] = "ma_take"
    /\ loaders' = ReleaseRef(loaders, handles[to].loader_)
    /\ handles' = [handles EXCEPT ![to] = handles[from], ![from] = NullHandle]
    /\ hpc' = [hpc EXCEPT ![t] = "idle"]
    /\ hcall' = [hcall EXCEPT ![t] = NoHandleCall]
    /\ UNCHANGED <<next_handle_id_, active_handles_, handle_mutex_, issued, overwritten,
                   hcalls>>
    /\ UNCHANGED notHandles

\* ------------------------------------------------------------------------
\* ChunkedTaffyWriter
\* ------------------------------------------------------------------------
MaxWriterCalls == 4

\* "out" can be created; the directory of "nodir/out" does not exist
WriterPaths == {"out", "nodir/out"}

NoWriterCall == [op |-> "none", ok |-> FALSE, after_final |-> FALSE, changed |-> FALSE,
                 data |-> <<>>, finalize_called |-> FALSE]

InitWriter ==
    /\ writer_file_ = [open |-> FALSE, fail |-> FALSE]
    /\ writer_filepath_ = ""
    /\ writer_directory_ = <<>>
    /\ chunk_count_ = 0
    /\ current_offset_ = 0
    /\ header_written_ = FALSE
    /\ wdisk = NoFile
    /\ added = <<>>
    /\ wlast = NoWriterCall
    /\ wcalls = 0

WCall == wcalls < MaxWriterCalls /\ wcalls' = wcalls + 1

\* a file that was created and holds no byte yet
EmptyFile == [NoFile EXCEPT !.exists = TRUE, !.short = TRUE]

\* since the last begin() a finalize() has succeeded
Latched ==
    wlast.op # "destructor" /\ (wlast.after_final \/ (wlast.op = "finalize" /\ wlast.ok))

\* begin: ofstream::open fails on a stream that is open, and on a path that
\* cannot be created; it truncates the file otherwise
Begin(path) ==
    /\ WCall
    /\ writer_filepath_' = path
    /\ IF writer_file_.open
       THEN /\ writer_file_' = [writer_file_ EXCEPT !.fail = TRUE]
            /\ wlast' = [NoWriterCall EXCEPT !.op = "begin", !.after_final = Latched]
            /\ UNCHANGED <<writer_directory_, chunk_count_, current_offset_,
                           header_written_, wdisk, added>>
       ELSE IF path # "out"
       THEN /\ writer_file_' = [open |-> FALSE, fail |-> TRUE]
            /\ wlast' = [NoWriterCall EXCEPT !.op = "begin", !.after_final = Latched]
            /\ UNCHANGED <<writer_directory_, chunk_count_, current_offset_,
                           header_written_, wdisk, added>>
       ELSE /\ writer_file_' = [open |-> TRUE, fail |-> FALSE]
            /\ current_offset_' = HeaderSize
            /\ writer_directory_' = <<>>
            /\ chunk_count_' = 0
            /\ header_written_' = FALSE
            /\ wdisk' = EmptyFile
            /\ added' = <<>>
            /\ wlast' = [NoWriterCall EXCEPT !.op = "begin", !.ok = TRUE,
                                             !.changed = (wdisk # EmptyFile)]
    /\ UNCHANGED notWriter

\* entry.checksum is never assigned: the member of the local entry keeps
\* whatever the stack held
Indeterminate32(data) ==
    {calculate_crc32(data), [hi |-> 0, lo |-> 0], [hi |-> 52428, lo |-> 52428]}

\* addMetadataChunk, and addAudioChunk which only builds the name
AddMetadataChunk(data, name) ==
    /\ WCall
    /\ IF ~writer_file_.open
       THEN /\ wlast' = [NoWriterCall EXCEPT !.op = "add_chunk", !.data = data,
                                             !.after_final = Latched]
            /\ UNCHANGED <<writer_directory_, chunk_count_, added>>
       ELSE \E sum \in Indeterminate32(data) :
              /\ writer_directory_' =
                    Append(writer_directory_,
                           [name |-> CopyName(name), type |-> "AUDI", offset |-> 0,
                            size |-> Len(data), flags |-> 0, checksum |-> sum])
              /\ chunk_count_' = chunk_count_ + 1
              /\ added' = Append(added, data)
              /\ wlast' = [NoWriterCall EXCEPT !.op = "add_chunk", !.ok = TRUE,
                                               !.data = data, !.after_final = Latched]
    /\ UNCHANGED <<writer_file_, writer_filepath_, current_offset_, header_written_,
                   wdisk>>
    /\ UNCHANGED notWriter

\* if (!file_.is_open() || header_written_) return false;
FinalizeRejected_Never(f, written) == FALSE

FinalizeRejected(f, written) == ~f.open \/ written

\* the header finalize builds
WriterHeader(count, total) ==
    [magic |-> "TAF!", version_major |-> 1, version_minor |-> 0, version_patch |-> 0,
     feature_flags |-> 2, chunk_count |-> count, total_size |-> total]

\* the members and the file after the body of finalize has run: offsets rolled
\* through the directory, header and directory written at position 0 (nothing is
\* written through a stream that is closed or has failed), the stream closed
FinalizeBody ==
    LET dir == LaidOut(writer_directory_)
        total == OffsetOf(writer_directory_, Len(writer_directory_) + 1)
    IN  [dir |-> dir, total |-> total,
         disk |-> IF writer_file_.open /\ ~writer_file_.fail
                  THEN [exists |-> TRUE, short |-> FALSE,
                        header |-> WriterHeader(chunk_count_, total), dir |-> dir,
                        body |-> <<>>, intact |-> TRUE]
                  ELSE wdisk]

Finalize ==
    /\ WCall
    /\ IF FinalizeRejected(writer_file_, header_written_)
       THEN /\ wlast' = [NoWriterCall EXCEPT !.op = "finalize", !.after_final = Latched]
            /\ UNCHANGED <<writer_file_, writer_directory_, current_offset_,
                           header_written_, wdisk>>
       ELSE /\ writer_directory_' = FinalizeBody.dir
            /\ current_offset_' = FinalizeBody.total
            /\ wdisk' = FinalizeBody.disk
            /\ header_written_' = TRUE
            /\ writer_file_' = [writer_file_ EXCEPT !.open = FALSE]
            /\ wlast' = [NoWriterCall EXCEPT !.op = "finalize", !.ok = TRUE,
                                             !.after_final = Latched,
                                             !.changed = (FinalizeBody.disk # wdisk)]
    /\ UNCHANGED <<writer_filepath_, chunk_count_, added>>
    /\ UNCHANGED notWriter

\* ~ChunkedTaffyWriter calls finalize() when the file is open; the members are
\* then those of the next writer constructed
WriterDestructor ==
    LET runs == writer_file_.open /\ ~FinalizeRejected(writer_file_, header_written_)
    IN
    /\ WCall
    /\ wdisk' = IF runs THEN FinalizeBody.disk ELSE wdisk
    /\ wlast' = [NoWriterCall EXCEPT !.op = "destructor", !.ok = runs,
                                     !.finalize_called = writer_file_.open,
                                     !.after_final = Latched,
                                     !.changed = (runs /\ FinalizeBody.disk # wdisk)]
    /\ writer_file_' = [open |-> FALSE, fail |-> FALSE]
    /\ writer_filepath_' = ""
    /\ writer_directory_' = <<>>
    /\ chunk_count_' = 0
    /\ current_offset_' = 0
    /\ header_written_' = FALSE
    /\ added' = <<>>
    /\ UNCHANGED notWriter

\* ------------------------------------------------------------------------
\* Overlays (src/include/overlay.h) applied to an Asset of src/include/taffy.h
\* ------------------------------------------------------------------------
\* the largest vertex_count of a geometry header and the largest vertex index
\* an operation addresses
MaxVertexCount == 2

\* operations per overlay, and calls of apply_to_asset per behaviour
MaxOps == 2

MaxOverlayCalls == 1

\* sizeof(GeometryChunk), packed: 4 uint32, two Vec3Q of 3 int64, 12 uint32
GeometryHeaderSize == 112

\* sizeof(OverlayVertex): Vec3Q position, float normal[3], uv[2], color[4]
VertexStride == 60

\* 4 * sizeof(float)
ColorSize == 16

\* sizeof(AttributeModification), packed: 4 uint32, float[4], uint32[4]
AttributeModificationSize == 48

FeatureFlags == {"QuantizedCoords", "HashBasedNames"}

Fill(n, b) == [i \in 1..n |-> b]

\* a uint32_t as it lies in memory, and the uint32_t memcpy reads at an offset
LE32(x) == <<x % 256, (x \div 256) % 256, (x \div 65536) % 256, (x \div 16777216) % 256>>

U32At(bytes, off) ==
    bytes[off + 1] + 256 * bytes[off + 2] + 65536 * bytes[off + 3]
        + 16777216 * bytes[off + 4]

\* a geometry payload as create_*_asset lays it out: the header (vertex_count,
\* index_count, vertex_stride, then the fields the overlays never read), the
\* vertex data of two vertices and three uint32 indices; vertex_count is what
\* the header says, which a payload given to add_chunk need not keep to
GeometryPayload(vertex_count) ==
    LE32(vertex_count) \o LE32(3) \o LE32(VertexStride)
        \o Fill(GeometryHeaderSize - 12, 0)
        \o Fill(2 * VertexStride + 3 * 4, 0)

Geometries == {GeometryPayload(n) : n \in 1..MaxVertexCount}

\* a shader payload as createHashBasedAsset lays it out, with one shader: the
\* ShaderChunk header (shader_count, reserved[3]), the Shader descriptor
\* (name_hash and entry_point_hash of 8 bytes, stage, spirv_size, max_vertices,
\* max_primitives, workgroup_size[3], reserved[4]) and the SPIR-V words
ShaderPayload(name_hash, stage, spirv) ==
    LE32(1) \o Fill(12, 0)
        \o LE32(name_hash) \o Fill(4, 0) \o Fill(8, 0) \o LE32(stage) \o LE32(Len(spirv))
        \o Fill(36, 0)
        \o spirv

\* the name hash of the shader of the assets, and the shader chunk they get:
\* a fragment shader of one SPIR-V word
ShaderHash == 5

Shaders == {ShaderPayload(ShaderHash, 1, Fill(4, 2))}

\* memcpy(&geom_header, chunk_ptr, sizeof(geom_header)); the payloads of
\* Geometries are never shorter than the header
GeomHeader(geom_data) ==
    [vertex_count |-> U32At(geom_data, 0), vertex_stride |-> U32At(geom_data, 8)]

\* Asset::Asset(): no feature flag, no chunk
NewAsset ==
    [feature_flags |-> {}, chunk_count |-> 0, chunk_data |-> <<>>, chunk_directory |-> <<>>]

has_feature(a, flag) == flag \in a.feature_flags

\* Asset::add_chunk; checksummed is the byte string calculate_crc32 was run
\* over: the entry's checksum is calculate_crc32(checksummed)
add_chunk(a, type, data, name) ==
    [a EXCEPT !.chunk_data = (type :> data) @@ a.chunk_data,
              !.chunk_directory =
                  Append(a.chunk_directory,
                         [type |-> type, size |-> Len(data), name |-> name,
                          checksummed |-> data]),
              !.chunk_count = Len(a.chunk_directory) + 1]

RECURSIVE EraseFirst(_, _)
\* chunk_directory_.erase(find_if(.. entry.type == type))
EraseFirst(dir, type) ==
    IF dir = <<>> THEN <<>>
    ELSE IF Head(dir).type = type THEN Tail(dir)
    ELSE <<Head(dir)>> \o EraseFirst(Tail(dir), type)

\* Asset::remove_chunk: the payload goes first; without a directory entry of
\* the type chunk_count is left as it is and the result is false
remove_chunk(a, type) ==
    IF type \notin DOMAIN a.chunk_data THEN a
    ELSE LET dir == EraseFirst(a.chunk_directory, type)
         IN  [a EXCEPT !.chunk_data = [t \in DOMAIN a.chunk_data \ {type} |-> a.chunk_data[t]],
                       !.chunk_directory = dir,
                       !.chunk_count = IF Len(dir) < Len(a.chunk_directory)
                                       THEN Len(dir) ELSE a.chunk_count]

\* the result of Asset::remove_chunk
remove_chunk_result(a, type) ==
    type \in DOMAIN a.chunk_data /\ \E i \in 1..Len(a.chunk_directory) : a.chunk_directory[i].type = type

\* memcpy(dst + off, src, Len(src))
WriteBytes(bytes, off, src) ==
    [i \in 1..Len(bytes) |->
        IF i > off /\ i <= off + Len(src) THEN src[i - off] ELSE bytes[i]]

\* an operation as olast keeps it: the OverlayOperation and the bytes found at
\* its data window
NoOp ==
    [operation_type |-> "none", target_hash |-> 0, data_offset |-> 0, data_size |-> 0,
     data |-> <<>>]

\* oob: a memcpy of the call read operation_data_ past its end
NoOverlayCall ==
    [op |-> "none", ok |-> FALSE, before |-> NewAsset, prev |-> NewAsset, step |-> NoOp,
     oob |-> FALSE]

\* the bytes of the float[4] colours and of the float values of a position
\* and of a normal; none is the byte 0 the geometry payloads are filled with
Colors == {Fill(ColorSize, 1)}

\* the AttributeModification of add_vertex_position_change and of
\* add_normal_change as add_operation copies it into operation_data_
AttrModBytes(attribute_offset, attribute_size, vertex_index, operation_type, b) ==
    LE32(attribute_offset) \o LE32(attribute_size) \o LE32(vertex_index)
        \o LE32(operation_type) \o Fill(12, b) \o Fill(4, 0) \o Fill(16, 0)

\* Overlay() and EnhancedOverlay()
OverlayCtor ==
    [kind |-> "Overlay", version_major |-> 1, operations |-> <<>>, operation_data |-> <<>>]

EnhancedOverlayCtor ==
    [kind |-> "EnhancedOverlay", version_major |-> 2, operations |-> <<>>,
     operation_data |-> <<>>]

InitOverlay ==
    /\ asset = NewAsset
    /\ overlay = OverlayCtor
    /\ olast = NoOverlayCall
    /\ ocalls = 0

\* a call that builds the asset or the overlay; the asset and the overlay are
\* built before the first apply_to_asset
Built == ocalls = 0 /\ olast' = NoOverlayCall /\ UNCHANGED <<ocalls, notOverlay>>

AssetCtor == asset' = NewAsset /\ Built /\ UNCHANGED overlay

set_feature_flags(flags) ==
    /\ asset' = [asset EXCEPT !.feature_flags = flags]
    /\ Built /\ UNCHANGED overlay

\* add_chunk of a chunk the asset does not have yet
AssetAddChunk(type, data, name) ==
    /\ type \notin DOMAIN asset.chunk_data
    /\ asset' = add_chunk(asset, type, data, name)
    /\ Built /\ UNCHANGED overlay

NewOverlay(o) == overlay' = o /\ Built /\ UNCHANGED asset

\* the operation is pushed with data_offset = operation_data_.size() and its
\* data is appended to operation_data_
PushOperation(operation_type, target_hash, data) ==
    /\ Len(overlay.operations) < MaxOps
    /\ overlay' = [overlay EXCEPT
                       !.operations =
                           Append(@, [operation_type |-> operation_type,
                                      target_hash |-> target_hash,
                                      data_offset |-> Len(overlay.operation_data),
                                      data_size |-> Len(data)]),
                       !.operation_data = @ \o data]
    /\ Built /\ UNCHANGED asset

add_vertex_color_change(vertex_index, color) ==
    /\ overlay.kind = "Overlay"
    /\ PushOperation("VertexColorChange", vertex_index, color)

\* Overlay::add_shader_replacement
add_shader_replacement(target_shader_hash, new_spirv) ==
    /\ overlay.kind = "Overlay"
    /\ PushOperation("ShaderReplace", target_shader_hash, new_spirv)

add_vertex_position_change(vertex_index) ==
    /\ overlay.kind = "EnhancedOverlay"
    /\ PushOperation("VertexPositionChange", vertex_index,
                     AttrModBytes(0, 12, vertex_index, 0, 3))

add_normal_change(vertex_index) ==
    /\ overlay.kind = "EnhancedOverlay"
    /\ PushOperation("VertexAttributeChange", vertex_index,
                     AttrModBytes(12, 12, vertex_index, 3, 4))

\* overlay files: a header with its magic and version_major, one colour
\* operation and ColorSize bytes of operation data; the operation's data_size
\* and data_offset are what the file says: the window of a colour inside the
\* operation data, one that starts at its end, or one too short for a colour;
\* and a file with another magic
OverlayFiles ==
    {[magic_ok |-> w[1], version_major |-> IF w[1] THEN 1 ELSE 2,
      operations |-> <<[operation_type |-> "VertexColorChange", target_hash |-> 0,
                        data_offset |-> w[3], data_size |-> w[2]]>>,
      operation_data |-> Fill(ColorSize, 1)] :
        w \in {<<TRUE, ColorSize, 0>>, <<TRUE, ColorSize, ColorSize>>,
               <<TRUE, 4, 0>>, <<FALSE, ColorSize, 0>>}}

\* Overlay::load_from_file: the header is read into header_ before the magic
\* is compared; operations and operation data are taken as the file has them
load_from_file(f) ==
    /\ overlay.kind = "Overlay"
    /\ overlay' = [overlay EXCEPT !.version_major = f.version_major,
                                  !.operations = IF f.magic_ok THEN f.operations ELSE @,
                                  !.operation_data =
                                      IF f.magic_ok THEN f.operation_data ELSE @]
    /\ Built /\ UNCHANGED asset

\* what a read past the end of operation_data_ may find
Garbage == {0, 9}

\* memcpy(dst, operation_data_.data() + op.data_offset, n): the bytes of
\* operation_data_ where the window lies inside it, g where it does not
ReadData(o, op, n, g) ==
    [i \in 1..n |->
        IF op.data_offset + i <= Len(o.operation_data)
        THEN o.operation_data[op.data_offset + i]
        ELSE g]

ReadsOutside(o, op, n) == op.data_offset + n > Len(o.operation_data)

StepOf(o, op, g) ==
    [operation_type |-> op.operation_type, target_hash |-> op.target_hash,
     data_offset |-> op.data_offset, data_size |-> op.data_size,
     data |-> ReadData(o, op, op.data_size, g)]

\* Overlay::targets_asset
targets_asset(o, a) ==
    IF ~has_feature(a, "HashBasedNames") THEN FALSE
    ELSE IF o.version_major > 1 THEN FALSE
    ELSE TRUE

ColorOffsetInVertex_Always24(a) == 24

\* color_offset_in_vertex
ColorOffsetInVertex(a) == IF has_feature(a, "QuantizedCoords") THEN 36 ELSE 24

\* the result of an operation that read nothing of operation_data_
Unread(ok, a) == [ok |-> ok, asset |-> a, oob |-> FALSE]

\* Overlay::apply_vertex_color_change and EnhancedOverlay::apply_vertex_color_change
apply_vertex_color_change(o, a, op, g) ==
    IF "GEOM" \notin DOMAIN a.chunk_data THEN Unread(FALSE, a)
    ELSE
        LET geom_data == a.chunk_data["GEOM"]
            geom_header == GeomHeader(geom_data)
            new_color == ReadData(o, op, ColorSize, g)
            oob == ReadsOutside(o, op, ColorSize)
            target_vertex_offset ==
                GeometryHeaderSize + op.target_hash * geom_header.vertex_stride
            absolute_color_offset == target_vertex_offset + ColorOffsetInVertex(a)
        IN  IF op.target_hash >= geom_header.vertex_count THEN Unread(FALSE, a)
            ELSE IF op.data_size < ColorSize THEN Unread(FALSE, a)
            ELSE IF absolute_color_offset + ColorSize > Len(geom_data)
                 THEN [ok |-> FALSE, asset |-> a, oob |-> oob]
            ELSE [ok |-> TRUE,
                  asset |-> add_chunk(remove_chunk(a, "GEOM"), "GEOM",
                                      WriteBytes(geom_data, absolute_color_offset, new_color),
                                      "modified_triangle_geometry"),
                  oob |-> oob]

\* EnhancedOverlay::apply_vertex_position_change; vertex_index * vertex_stride
\* is a product of two uint32_t, which the indices and the stride of
\* Geometries keep far below 2^32
apply_vertex_position_change(o, a, op, g) ==
    IF op.data_size < AttributeModificationSize THEN Unread(FALSE, a)
    ELSE
        LET attr_mod == ReadData(o, op, AttributeModificationSize, g)
            oob == ReadsOutside(o, op, AttributeModificationSize)
            attribute_offset == U32At(attr_mod, 0)
            attribute_size == U32At(attr_mod, 4)
            vertex_index == U32At(attr_mod, 8)
            values == SubSeq(attr_mod, 17, 32)
            geom_data == a.chunk_data["GEOM"]
            geom_header == GeomHeader(geom_data)
            target_vertex_offset ==
                GeometryHeaderSize + vertex_index * geom_header.vertex_stride
            absolute_position_offset == target_vertex_offset + attribute_offset
        IN  IF "GEOM" \notin DOMAIN a.chunk_data THEN [ok |-> FALSE, asset |-> a, oob |-> oob]
            ELSE IF absolute_position_offset + attribute_size <= Len(geom_data)
            THEN [ok |-> TRUE,
                  asset |-> add_chunk(remove_chunk(a, "GEOM"), "GEOM",
                                      WriteBytes(geom_data, absolute_position_offset,
                                                 SubSeq(values, 1, attribute_size)),
                                      "position_modified_geometry"),
                  oob |-> oob]
            ELSE [ok |-> FALSE, asset |-> a, oob |-> oob]

\* Overlay::apply_shader_replacement: a stub that returns true
apply_shader_replacement(o, a, op, g) == Unread(TRUE, a)

\* the switch of Overlay::apply_to_asset
OverlayDispatch(o, a, op, g) ==
    IF op.operation_type = "ShaderReplace" THEN apply_shader_replacement(o, a, op, g)
    ELSE IF op.operation_type = "VertexColorChange"
         THEN apply_vertex_color_change(o, a, op, g)
    ELSE Unread(TRUE, a)

\* the switch of EnhancedOverlay::apply_to_asset for the operations its add_
\* functions of this model push; VertexAttributeChange has no case
EnhancedDispatch(o, a, op, g) ==
    IF op.operation_type = "VertexColorChange" THEN apply_vertex_color_change(o, a, op, g)
    ELSE IF op.operation_type = "VertexPositionChange"
         THEN apply_vertex_position_change(o, a, op, g)
    ELSE Unread(TRUE, a)

\* the state of apply_to_asset before its first operation
Start(a) == [ok |-> TRUE, asset |-> a, prev |-> a, step |-> NoOp, oob |-> FALSE]

\* a loop that stops after its first operation
ApplyOperations_FirstOnly(o, i, st, g) ==
    IF i > Len(o.operations) THEN st
    ELSE
        LET op == o.operations[i]
            r == IF o.kind = "Overlay" THEN OverlayDispatch(o, st.asset, op, g)
                 ELSE EnhancedDispatch(o, st.asset, op, g)
        IN  [ok |-> r.ok, asset |-> r.asset, prev |-> st.asset,
             step |-> StepOf(o, op, g), oob |-> st.oob \/ r.oob]

RECURSIVE ApplyOperations(_, _, _, _)
\* for (const auto& op : operations_), returning false at the first operation
\* that fails; prev and step are the asset before the last operation reached
\* and that operation
ApplyOperations(o, i, st, g) ==
    IF i > Len(o.operations) THEN st
    ELSE
        LET op == o.operations[i]
            r == IF o.kind = "Overlay" THEN OverlayDispatch(o, st.asset, op, g)
                 ELSE EnhancedDispatch(o, st.asset, op, g)
            next == [ok |-> r.ok, asset |-> r.asset, prev |-> st.asset,
                     step |-> StepOf(o, op, g), oob |-> st.oob \/ r.oob]
        IN  IF r.ok THEN ApplyOperations(o, i + 1, next, g) ELSE next

Applied(r) ==
    /\ ocalls < MaxOverlayCalls
    /\ ocalls' = ocalls + 1
    /\ asset' = r.asset
    /\ olast' = [op |-> "apply_to_asset", ok |-> r.ok, before |-> asset,
                 prev |-> r.prev, step |-> r.step, oob |-> r.oob]
    /\ UNCHANGED <<overlay, notOverlay>>

\* Overlay::apply_to_asset
OverlayApplyToAsset ==
    /\ overlay.kind = "Overlay"
    /\ \E g \in Garbage :
           Applied(IF ~targets_asset(overlay, asset)
                   THEN [Start(asset) EXCEPT !.ok = FALSE]
                   ELSE ApplyOperations(overlay, 1, Start(asset), g))

\* EnhancedOverlay::apply_to_asset
EnhancedApplyToAsset ==
    /\ overlay.kind = "EnhancedOverlay"
    /\ \E g \in Garbage : Applied(ApplyOperations(overlay, 1, Start(asset), g))

\* ------------------------------------------------------------------------
\* Asset::remove_chunk on the container; last.tag is the tag it was called with
\* ------------------------------------------------------------------------
RemoveChunk(type) ==
    /\ Call
    /\ IF type \notin DOMAIN chunk_data_
       THEN /\ last' = [NoCall EXCEPT !.op = "remove_chunk", !.ok = "false", !.tag = type]
            /\ UNCHANGED <<header_, chunk_directory_, chunk_data_>>
       ELSE LET dir == EraseFirst(chunk_directory_, type)
                erased == Len(dir) < Len(chunk_directory_)
            IN  /\ chunk_data_' = [t \in DOMAIN chunk_data_ \ {type} |-> chunk_data_[t]]
                /\ chunk_directory_' = dir
                /\ header_' = IF erased THEN [header_ EXCEPT !.chunk_count = Len(dir)]
                              ELSE header_
                /\ last' = [NoCall EXCEPT !.op = "remove_chunk",
                                          !.ok = IF erased THEN "true" ELSE "false",
                                          !.tag = type]
    /\ UNCHANGED <<disk, saved, fresh>>
    /\ UNCHANGED notAsset

\* ------------------------------------------------------------------------
\* Specification of the container
\* ------------------------------------------------------------------------
Add == \E type \in Tags, data \in Payloads, name \in Names : AddChunk(type, data, name)

Load == \E f \in FilesToLoad : LoadFromFileSafe(f)

Init == InitAsset /\ InitLoader /\ InitHandles /\ InitWriter /\ InitOverlay

Next ==
    \/ Add
    \/ SaveToFile
    \/ Load

Spec == Init /\ [][Next]_vars

\* ------------------------------------------------------------------------
\* Specifications of the loader: used by all threads, and by one thread
\* ------------------------------------------------------------------------
OpenFile(T) == \E t \in T, p \in Paths : Open(t, p)

CloseFile(T) == \E t \in T : Close(t) \/ CloseClearCache(t) \/ CloseReturn(t)

Clear(T) == \E t \in T : ClearCache(t)

Stats(T) == \E t \in T : GetCacheStats(t)

LoadChunk(T) ==
    \E t \in T :
        \/ \E index \in Indices : LoadChunkBegin(t, index)
        \/ LoadChunkLookup(t)
        \/ LoadChunkInternal(t)
        \/ LoadChunkInsert(t)

NextLoader == OpenFile(Threads) \/ CloseFile(Threads) \/ Clear(Threads)
                \/ Stats(Threads) \/ LoadChunk(Threads)

NextLoaderSeq == OpenFile({1}) \/ CloseFile({1}) \/ Clear({1}) \/ Stats({1})
                   \/ LoadChunk({1})

SpecLoader == Init /\ [][NextLoader]_vars

SpecLoaderSeq == Init /\ [][NextLoaderSeq]_vars

\* ------------------------------------------------------------------------
\* Specification of the writer, with the container's load of the file written
\* ------------------------------------------------------------------------
BeginFile == \E path \in WriterPaths : Begin(path)

AddToWriter == \E data \in Payloads, name \in Names : AddMetadataChunk(data, name)

LoadWritten == wlast.op = "finalize" /\ wlast.ok /\ LoadFromFileSafe(wdisk)

NextWriter == BeginFile \/ AddToWriter \/ Finalize \/ WriterDestructor \/ LoadWritten

SpecWriter == Init /\ [][NextWriter]_vars

\* ------------------------------------------------------------------------
\* Specification of the overlays
\* ------------------------------------------------------------------------
BuildAsset ==
    \/ AssetCtor
    \/ \E flags \in SUBSET FeatureFlags : set_feature_flags(flags)
    \/ \E g \in Geometries : AssetAddChunk("GEOM", g, "triangle_geometry")
    \/ \E data \in {<<>>, <<7>>} : AssetAddChunk("MTRL", data, "triangle_material")
    \/ \E sh \in Shaders : AssetAddChunk("SHDR", sh, "hash_based_shaders")

BuildOverlay ==
    \/ NewOverlay(OverlayCtor)
    \/ NewOverlay(EnhancedOverlayCtor)
    \/ \E v \in {0, MaxVertexCount - 1, MaxVertexCount}, color \in Colors :
           add_vertex_color_change(v, color)
    \/ add_shader_replacement(ShaderHash, Fill(8, 6))
    \/ \E v \in {0, MaxVertexCount} : add_vertex_position_change(v)
    \/ add_normal_change(MaxVertexCount)
    \/ \E f \in OverlayFiles : load_from_file(f)

NextOverlay == BuildAsset \/ BuildOverlay \/ OverlayApplyToAsset \/ EnhancedApplyToAsset

SpecOverlay == Init /\ [][NextOverlay]_vars

\* ------------------------------------------------------------------------
\* Specification of the container's chunk map: add_chunk and remove_chunk
\* ------------------------------------------------------------------------
Remove == \E type \in Tags : RemoveChunk(type)

NextChunks == Add \/ Remove

SpecChunks == Init /\ [][NextChunks]_vars

\* ------------------------------------------------------------------------
\* Specification of the handles
\* ------------------------------------------------------------------------
CreateHandle ==
    \E t \in Threads :
        \/ \E p \in Paths, slot \in Slots : CreateHandleBegin(t, p, slot)
        \/ CreateHandleRegister(t)

MoveHandle ==
    \E t \in Threads :
        \/ \E from, to \in Slots : MoveConstruct(t, from, to)
        \/ \E from, to \in Slots : MoveAssignBegin(t, from, to)
        \/ MoveAssignTake(t)

DestroyHandle ==
    \E t \in Threads :
        \/ \E slot \in Slots : DestroyHandleBegin(t, slot)
        \/ DestroyHandleRelease(t)

NextHandles == CreateHandle \/ MoveHandle \/ DestroyHandle

SpecHandles == Init /\ [][NextHandles]_vars

\* ------------------------------------------------------------------------
\* Specification of the locks: threads that call the shared loader and threads
\* that create, move and destroy handles, MaxLiveCalls calls in all, under a
\* scheduler that lets every thread inside a call run again
\* ------------------------------------------------------------------------
MaxLiveCalls == 3

LiveBudget == lcalls' + hcalls' <= MaxLiveCalls

\* the steps of thread t after the first step of a call: each takes the mutex
\* its part of the call needs
LoaderContinue(t) ==
    \/ CloseClearCache(t)
    \/ CloseReturn(t)
    \/ LoadChunkLookup(t)
    \/ LoadChunkInternal(t)
    \/ LoadChunkInsert(t)

HandleContinue(t) ==
    \/ CreateHandleRegister(t)
    \/ DestroyHandleRelease(t)
    \/ MoveAssignTake(t)

\* the files opened: A, a valid file, and N, which does not exist
LivePaths == {"A", "N"}

NextLive ==
    \/ (\E t \in Threads, p \in LivePaths : Open(t, p)) /\ LiveBudget
    \/ CloseFile(Threads) /\ LiveBudget
    \/ Clear(Threads) /\ LiveBudget
    \/ Stats(Threads) /\ LiveBudget
    \/ LoadChunk(Threads) /\ LiveBudget
    \/ (\E t \in Threads :
            \/ \E p \in LivePaths, slot \in Slots : CreateHandleBegin(t, p, slot)
            \/ CreateHandleRegister(t)) /\ LiveBudget
    \/ MoveHandle /\ LiveBudget
    \/ DestroyHandle /\ LiveBudget

\* some thread that is inside a call and can take its next step does so
Continue == \E t \in Threads : LoaderContinue(t) \/ HandleContinue(t)

SpecLive == Init /\ [][NextLive]_vars /\ WF_vars(Continue)

\* ------------------------------------------------------------------------
\* Properties of the container
\* ------------------------------------------------------------------------
DistinctTags(dir) == \A i, j \in 1..Len(dir) : dir[i].type = dir[j].type => i = j

RECURSIVE PayloadBytes(_, _)
PayloadBytes(data, keys) ==
    IF keys = {} THEN 0
    ELSE LET k == CHOOSE x \in keys : TRUE
         IN  Len(data[k]) + PayloadBytes(data, keys \ {k})

CountsAllEqual ==
    /\ header_.chunk_count = Len(chunk_directory_)
    /\ header_.chunk_count = Cardinality(DOMAIN chunk_data_)

SameButOffsets(d, e) ==
    /\ Len(d) = Len(e)
    /\ \A i \in 1..Len(d) : [d[i] EXCEPT !.offset = 0] = [e[i] EXCEPT !.offset = 0]

\* C1: an asset built by add_chunk under pairwise distinct tags is saved with
\* success, and loading the file that save wrote succeeds and yields the saved
\* header (total_size apart), directory (offsets apart) and payloads.
C1_RoundTrip ==
    /\ (last.op = "save_to_file" /\ fresh /\ DistinctTags(chunk_directory_))
          => last.ok = "true"
    /\ (last.op = "load_from_file_safe" /\ last.intact /\ saved.valid /\ saved.fresh
           /\ DistinctTags(saved.dir))
          => /\ last.ok = "true"
             /\ [header_ EXCEPT !.total_size = 0] = [saved.header EXCEPT !.total_size = 0]
             /\ SameButOffsets(chunk_directory_, saved.dir)
             /\ chunk_data_ = saved.data

\* C2: after add_chunk calls (tags may repeat) and after a successful load,
\* every directory entry's size and checksum are the length and the CRC32 of
\* the payload stored under the entry's tag.
C2_CrcSound ==
    ((last.op = "add_chunk" /\ fresh)
        \/ (last.op = "load_from_file_safe" /\ last.ok = "true"))
    => \A i \in 1..Len(chunk_directory_) :
          LET e == chunk_directory_[i]
          IN  /\ has_chunk(e.type)
              /\ e.size = Len(chunk_data_[e.type])
              /\ e.checksum = calculate_crc32(chunk_data_[e.type])

\* C3: save_to_file returns failure without opening the path for writing
\* whenever chunk_count, the directory length and the number of payloads are
\* not all equal, and they are not all equal once add_chunk has reused a tag.
C3_SaveRejectsMismatch ==
    /\ (last.op = "save_to_file" /\ ~CountsAllEqual)
          => (last.ok = "false" /\ ~last.opened)
    /\ (fresh /\ ~DistinctTags(chunk_directory_)) => ~CountsAllEqual

\* C3, reached: add_chunk was called twice with one tag and save_to_file then
\* returned failure with nothing written at the path.
C3_Witness ==
    /\ last.op = "save_to_file" /\ last.why = "count" /\ fresh
    /\ Len(chunk_directory_) = 2 /\ Cardinality(DOMAIN chunk_data_) = 1
    /\ ~disk.exists

\* C4: after a successful save the offsets are contiguous from the end of the
\* directory, and total_size is header + directory + the payloads' sizes, which
\* is the length of the file written.
C4_ContiguousLayout ==
    (last.op = "save_to_file" /\ last.ok = "true")
    => LET n == Len(chunk_directory_)
           start == HeaderSize + n * EntrySize
       IN  /\ n >= 1 => chunk_directory_[1].offset = start
           /\ \A i \in 1..(n - 1) :
                 chunk_directory_[i + 1].offset
                    = chunk_directory_[i].offset + chunk_directory_[i].size
           /\ header_.total_size = start + PayloadBytes(chunk_data_, DOMAIN chunk_data_)
           /\ header_.total_size = FileSize(disk)

\* C5: load_from_file_safe returns failure for every file with a directory
\* entry that is not wholly inside the file (sums unbounded), and requests no
\* buffer for a range that is not wholly inside the file.
C5_BoundsChecked ==
    last.op = "load_from_file_safe"
    => /\ last.outside => last.ok = "false"
       /\ \A k \in 1..Len(last.alloc) :
             last.alloc[k].offset + last.alloc[k].size <= last.size

\* C6: when load_from_file_safe fails on a checksum, none of the payloads it
\* read from the file is retrievable from the asset.
C6_ChecksumInvalidatesLoad ==
    (last.op = "load_from_file_safe" /\ last.why = "checksum")
    => \A t \in DOMAIN last.loaded : ~has_chunk(t)

\* ------------------------------------------------------------------------
\* Properties of the streaming loader
\* ------------------------------------------------------------------------
\* C7: when a load_chunk call has returned, the payloads held in the cache sum
\* to at most 50 MiB.
C7_CacheBound ==
    (\E t \in Threads : ret[t].op = "load_chunk" /\ ret[t].ok)
    => CacheBytes(chunk_cache_) <= CacheLimit

\* C8: with no call in progress, hits + misses is the number of load_chunk
\* calls that did not fail, over the whole life of the loader.
C8_CacheAccounting ==
    (\A t \in Threads : pc[t] = "idle") => cache_hits_ + cache_misses_ = ok_loads

\* C9: every entry load_chunk removes has the least access_count of the entries
\* cached at that moment, and the lowest index among those of that count.
C9_EvictionOrder ==
    \A t \in Threads : \A k \in 1..Len(ret[t].evicted) :
        LET e == ret[t].evicted[k]
        IN  \A j \in DOMAIN e.counts :
               /\ e.counts[e.victim] <= e.counts[j]
               /\ e.counts[j] = e.counts[e.victim] => e.victim <= j

\* C11: from the return of close() to the next open(), the directory and the
\* chunk cache are empty, whatever calls of other threads are in progress.
C11_ClosedIsEmpty ==
    closed => (directory_ = <<>> /\ chunk_cache_ = EmptyCache)

\* the validation the container's load applies to header and directory
PassesLoadValidation(f) ==
    /\ f.exists
    /\ f.magic = "TAF!"
    /\ f.version[1] <= 100 /\ f.version[2] <= 100 /\ f.version[3] <= 1000
    /\ Len(f.dir) <= 1000
    /\ f.total_size = f.size
    /\ \A i \in 1..Len(f.dir) :
          f.dir[i].offset < f.size /\ f.dir[i].offset + f.dir[i].size <= f.size

\* C12: open(path) returns success only for a file that passes the header and
\* directory validation of load_from_file_safe; otherwise it returns failure
\* with the loader not open.
C12_OpenValidates ==
    \A t \in Threads :
        ret[t].op = "open"
        => /\ ret[t].ok => PassesLoadValidation(LoaderFiles[ret[t].path])
           /\ ~PassesLoadValidation(LoaderFiles[ret[t].path]) => ~ret[t].is_open

\* ------------------------------------------------------------------------
\* Properties of the handles
\* ------------------------------------------------------------------------
\* C13: the ids issued by create_handle are non-zero and strictly increasing in
\* the order of issue, no two handles hold the same non-zero id, and no id was
\* registered while the registry already held it.
C13_HandleIdsMonotonic ==
    /\ \A i \in 1..Len(issued) : issued[i] # 0
    /\ \A i, j \in 1..Len(issued) : i < j => issued[i] < issued[j]
    /\ \A a, b \in Slots :
          (handles[a].live /\ handles[b].live /\ handles[a].handle_id_ # 0
              /\ handles[a].handle_id_ = handles[b].handle_id_) => a = b
    /\ ~overwritten

\* C13, reached: both threads hold a handle that create_handle returned.
C13_Witness ==
    /\ Len(issued) >= 2
    /\ \E a, b \in Slots : /\ a[1] # b[1]
                           /\ handles[a].handle_id_ # 0 /\ handles[b].handle_id_ # 0

\* the shared_ptr copies of loader k: those in handles and those local to a
\* create_handle call in progress
Owners(k) ==
    {s \in Slots : handles[s].live /\ handles[s].loader_ = k}
        \cup {t \in Threads : hcall[t].loader = k}

\* C14: a loader that no handle owns is destroyed and its file closed, and
\* every entry of the registry refers to a loader that is still alive (so no
\* entry reaches a loader once its last handle is gone).
C14_RegistryKeepsNothingAlive ==
    /\ \A k \in 1..Len(loaders) :
          Owners(k) = {} => (loaders[k].destroyed /\ ~loaders[k].file_open)
    /\ \A id \in DOMAIN active_handles_ : ~loaders[active_handles_[id]].destroyed

\* C14, reached: a loader that was opened and registered, whose handle was moved
\* and then destroyed, is destroyed.
C14_Witness ==
    /\ Len(loaders) = 1 /\ loaders[1].opened /\ loaders[1].destroyed
    /\ issued = <<1>>
    /\ handles[<<1, 1>>] = NullHandle
    /\ \A s \in Slots \ {<<1, 1>>} : ~handles[s].live
    /\ active_handles_ = [i \in {} |-> 0]

\* ------------------------------------------------------------------------
\* Properties of the writer
\* ------------------------------------------------------------------------
\* C15: after a successful begin(), add calls and a successful finalize() the
\* file has the length its header declares, every directory entry's range
\* holds the bytes passed to the add call that made the entry, and
\* load_from_file_safe accepts the file.
C15_WrittenFileValid ==
    (wlast.op = "finalize" /\ wlast.ok /\ ~writer_file_.fail)
    => /\ wdisk.exists
       /\ FileSize(wdisk) = wdisk.header.total_size
       /\ Len(wdisk.dir) = Len(added)
       /\ \A i \in 1..Len(wdisk.dir) :
             /\ wdisk.dir[i].offset + wdisk.dir[i].size <= FileSize(wdisk)
             /\ ReadAt(wdisk, wdisk.dir[i].offset, wdisk.dir[i].size) = added[i]
       /\ last.op = "load_from_file_safe" => last.ok = "true"

\* C16: the entry an add call appends has offset 0, the size and the CRC32 of
\* the bytes passed, and after the call the chunk counter is the directory's
\* length.
C16_WriterEntry ==
    wlast.op = "add_chunk"
    => /\ chunk_count_ = Len(writer_directory_)
       /\ wlast.ok =>
             LET e == writer_directory_[Len(writer_directory_)]
             IN  /\ e.offset = 0
                 /\ e.size = Len(wlast.data)
                 /\ e.checksum = calculate_crc32(wlast.data)

\* C17: a finalize() issued after one has succeeded, with no begin() between,
\* returns failure and leaves the file as it is; the destructor's is no
\* exception.
C17_FinalizeLatched ==
    ((wlast.op = "finalize" \/ wlast.op = "destructor") /\ wlast.after_final)
    => (~wlast.ok /\ ~wlast.changed)

\* C17, reached: finalize() was rejected on a writer whose earlier finalize()
\* wrote a file with a chunk in its directory.
C17_Witness ==
    /\ wlast.op = "finalize" /\ wlast.after_final /\ ~wlast.ok
    /\ header_written_ /\ ~writer_file_.open
    /\ wdisk.exists /\ ~wdisk.short /\ Len(wdisk.dir) = 1

\* C18: applying an overlay, an Overlay or an EnhancedOverlay, modifies the
\* asset only if targets_asset holds for it (the asset's feature flags include
\* HashBasedNames and the overlay's major version is at most 1); in every
\* other case apply_to_asset fails and leaves the asset as it was
C18_TargetingGates ==
    (olast.op = "apply_to_asset" /\ ~targets_asset(overlay, olast.before))
        => (~olast.ok /\ asset = olast.before)

\* the vertex a single-vertex operation addresses: target_hash of a colour
\* change, vertex_index of the AttributeModification of the others
VertexIndexOf(op) ==
    IF op.operation_type = "VertexColorChange" THEN op.target_hash ELSE U32At(op.data, 8)

\* C19: a successful VertexColorChange on vertex v changes exactly the 16
\* bytes of the geometry payload that start at sizeof(GeometryChunk) +
\* v * vertex_stride + c, with c = 36 if the asset has QuantizedCoords and 24
\* otherwise: those bytes become the operation's colour, every other byte of
\* the geometry payload and every other chunk's payload stay as they were
C19_ColorChangeFrame ==
    (olast.op = "apply_to_asset" /\ olast.ok
        /\ olast.step.operation_type = "VertexColorChange")
        => LET before == olast.prev.chunk_data["GEOM"]
               after == asset.chunk_data["GEOM"]
               c == IF "QuantizedCoords" \in olast.prev.feature_flags THEN 36 ELSE 24
               start == GeometryHeaderSize + olast.step.target_hash * U32At(before, 8) + c
           IN  /\ DOMAIN asset.chunk_data = DOMAIN olast.prev.chunk_data
               /\ Len(after) = Len(before)
               /\ \A i \in 1..Len(before) :
                      after[i] = IF i > start /\ i <= start + 16
                                 THEN olast.step.data[i - start]
                                 ELSE before[i]
               /\ \A t \in DOMAIN olast.prev.chunk_data \ {"GEOM"} :
                      asset.chunk_data[t] = olast.prev.chunk_data[t]

\* a colour change of vertex 1 of a quantized asset that has a second chunk
\* succeeded and changed the geometry payload
C19_Witness ==
    /\ olast.op = "apply_to_asset" /\ olast.ok
    /\ olast.step.operation_type = "VertexColorChange"
    /\ olast.step.target_hash = 1
    /\ "QuantizedCoords" \in asset.feature_flags
    /\ "MTRL" \in DOMAIN asset.chunk_data
    /\ asset.chunk_data["GEOM"] # olast.prev.chunk_data["GEOM"]

\* C20: an operation that addresses a single vertex (VertexColorChange,
\* VertexPositionChange, VertexAttributeChange) whose vertex index is at least
\* the geometry header's vertex_count fails and leaves the geometry payload
\* untouched, also when the byte offset computed from the index lies inside
\* the payload
C20_VertexIndexChecked ==
    (olast.op = "apply_to_asset"
        /\ olast.step.operation_type \in
               {"VertexColorChange", "VertexPositionChange", "VertexAttributeChange"}
        /\ "GEOM" \in DOMAIN olast.prev.chunk_data
        /\ VertexIndexOf(olast.step) >= U32At(olast.prev.chunk_data["GEOM"], 0))
        => (~olast.ok /\ asset.chunk_data = olast.prev.chunk_data)

\* the bytes of operation data an operation of the given type needs: a
\* float[4] colour, an AttributeModification
NeededSize(operation_type) ==
    IF operation_type = "VertexColorChange" THEN ColorSize
    ELSE IF operation_type \in {"VertexPositionChange", "VertexAttributeChange"}
         THEN AttributeModificationSize
    ELSE 0

\* C21: an operation is rejected whenever its data window does not supply the
\* bytes it needs, both when data_size is smaller than the record and when
\* [data_offset, data_offset + needed) does not lie inside the overlay's
\* operation data; and applying an overlay never reads a byte outside the
\* operation data
C21_DataWindowChecked ==
    olast.op = "apply_to_asset"
        => /\ ~olast.oob
           /\ (olast.step.data_size < NeededSize(olast.step.operation_type)
                  \/ olast.step.data_offset + NeededSize(olast.step.operation_type)
                         > Len(overlay.operation_data))
                  => ~olast.ok

\* the descriptor of the one shader of a shader payload and its SPIR-V blob
ShaderOf(shader_data) ==
    [name_hash |-> U32At(shader_data, 16), spirv_size |-> U32At(shader_data, 36),
     spirv |-> SubSeq(shader_data, 77, Len(shader_data))]

\* C22: after a successful apply_to_asset whose ShaderReplace operation has
\* the name_hash of a shader descriptor of the asset's shader payload as its
\* target_hash, that descriptor's spirv_size is the operation's data size and
\* its SPIR-V blob is the operation's data window
C22_ShaderReplaced ==
    (olast.op = "apply_to_asset" /\ olast.ok
        /\ olast.step.operation_type = "ShaderReplace"
        /\ "SHDR" \in DOMAIN olast.prev.chunk_data
        /\ ShaderOf(olast.prev.chunk_data["SHDR"]).name_hash = olast.step.target_hash)
        => /\ "SHDR" \in DOMAIN asset.chunk_data
           /\ ShaderOf(asset.chunk_data["SHDR"]).spirv_size = olast.step.data_size
           /\ ShaderOf(asset.chunk_data["SHDR"]).spirv = olast.step.data

\* header.chunk_count == directory length == number of payloads
CountsAgree(a) ==
    a.chunk_count = Len(a.chunk_directory)
        /\ a.chunk_count = Cardinality(DOMAIN a.chunk_data)

\* calculate_crc32 gives the same checksum for both byte strings
SameCrc(x, y) == x = y \/ Crc32(x) = Crc32(y)

\* every directory entry has the size and the checksum of the payload stored
\* under its tag
EntriesMatch(a) ==
    \A i \in 1..Len(a.chunk_directory) :
        LET e == a.chunk_directory[i]
        IN  /\ e.type \in DOMAIN a.chunk_data
            /\ e.size = Len(a.chunk_data[e.type])
            /\ SameCrc(e.checksummed, a.chunk_data[e.type])

\* the directory of the asset with the offset field save_to_file assigns
EntriesOf(a) ==
    [i \in 1..Len(a.chunk_directory) |->
        [type |-> a.chunk_directory[i].type, size |-> a.chunk_directory[i].size,
         offset |-> 0, checksummed |-> a.chunk_directory[i].checksummed]]

\* save_to_file of the asset succeeds (count comparison, payload present,
\* tellp at the entry's offset) and load_from_file_safe accepts the file it
\* writes (header, every entry inside the file, every checksum)
SavesAndLoads(a) ==
    LET dir0 == EntriesOf(a)
        hdr0 == [DefaultHeader EXCEPT !.chunk_count = a.chunk_count]
        dir == LaidOut(dir0)
        hdr == [hdr0 EXCEPT !.total_size = OffsetOf(dir0, Len(dir0) + 1)]
        w == WritePayloads(dir, a.chunk_data, 1, HeaderSize + Len(dir) * EntrySize, <<>>)
        f == [exists |-> TRUE, short |-> FALSE, header |-> hdr, dir |-> dir,
              body |-> w.body, intact |-> TRUE]
    IN  /\ IntegrityOk(hdr0, dir0, a.chunk_data)
        /\ w.ok = "true"
        /\ HeaderValid(hdr, FileSize(f))
        /\ \A i \in 1..Len(dir) :
               /\ ~EntryOutside(dir[i], FileSize(f))
               /\ SameCrc(ReadAt(f, dir[i].offset, dir[i].size), dir[i].checksummed)

\* C23: after a successful apply_to_asset on an asset whose chunk_count,
\* directory length and number of payloads were equal, they are equal again,
\* every directory entry's size and checksum match the payload under its tag,
\* and a save_to_file that follows passes its integrity check and writes a
\* file that loads
C23_ReadyForResave ==
    (olast.op = "apply_to_asset" /\ olast.ok /\ CountsAgree(olast.before))
        => (CountsAgree(asset) /\ EntriesMatch(asset) /\ SavesAndLoads(asset))

\* the overlay that declares only the i-th operation of o, with the data of
\* that operation as its operation data
Alone(o, i) ==
    LET op == o.operations[i]
    IN  [o EXCEPT !.operations = <<[op EXCEPT !.data_offset = 0]>>,
                  !.operation_data = SubSeq(o.operation_data, op.data_offset + 1,
                                            op.data_offset + op.data_size)]

\* Overlay::apply_to_asset of overlay o on asset a
OverlayApply(o, a, g) ==
    IF ~targets_asset(o, a) THEN [Start(a) EXCEPT !.ok = FALSE]
    ELSE ApplyOperations(o, 1, Start(a), g)

\* the overlay declares a ShaderReplace and then a VertexColorChange, each
\* with its data window inside the operation data
ShaderThenColor(o) ==
    /\ o.kind = "Overlay"
    /\ Len(o.operations) = 2
    /\ o.operations[1].operation_type = "ShaderReplace"
    /\ o.operations[2].operation_type = "VertexColorChange"
    /\ \A i \in 1..2 : ~ReadsOutside(o, o.operations[i], o.operations[i].data_size)

\* C24: applying one overlay that declares a ShaderReplace and then a
\* VertexColorChange gives the asset that applying the ShaderReplace alone and
\* then the VertexColorChange alone to the original asset gives, and succeeds
\* exactly when both of these succeed
C24_Composable ==
    (olast.op = "apply_to_asset" /\ ShaderThenColor(overlay))
        => \A g \in Garbage :
               LET first == OverlayApply(Alone(overlay, 1), olast.before, g)
                   second == OverlayApply(Alone(overlay, 2), first.asset, g)
               IN  /\ asset = second.asset
                   /\ olast.ok = (first.ok /\ second.ok)

\* a composed overlay has been applied and has changed the colour of a vertex
C24_Witness ==
    /\ olast.op = "apply_to_asset" /\ olast.ok
    /\ ShaderThenColor(overlay)
    /\ "SHDR" \in DOMAIN olast.before.chunk_data
    /\ asset # olast.before

\* C28: an apply_to_asset that returns false leaves the asset as it was before
\* the call
C28_AllOrNothing ==
    (olast.op = "apply_to_asset" /\ ~olast.ok) => asset = olast.before

\* C30: after any sequence of add_chunk and remove_chunk calls chunk_count is
\* the length of the directory, and after a remove_chunk(tag) that returned
\* true there is no directory entry and no payload of that tag
C30_RemoveLeavesNothing ==
    /\ header_.chunk_count = Len(chunk_directory_)
    /\ (last.op = "remove_chunk" /\ last.ok = "true")
           => /\ last.tag \notin DOMAIN chunk_data_
              /\ \A i \in 1..Len(chunk_directory_) : chunk_directory_[i].type # last.tag

\* C25: no thread holds file_mutex_ and cache_mutex_ at the same time
C25_LocksNeverNested ==
    \A t \in Threads : ~(file_mutex_ = t /\ cache_mutex_ = t)

\* C26: while the file is open and an earlier read has left its error state
\* set, a load_chunk of an index whose bytes lie wholly inside the file succeeds
C26_FailedReadNotLatched ==
    \A t \in Threads :
        (/\ ret[t].op = "load_chunk"
         /\ file_.open /\ file_.fail
         /\ ret[t].expect # NoData
         /\ ret[t].expect.offset + ret[t].expect.size <= LoaderFiles[filepath_].size)
            => ret[t].ok

\* C29: whenever loadChunkInternal, holding file_mutex_ with the file open,
\* reads directory_[index], index is less than the length of directory_
C29_IndexInsideDirectory ==
    [][\A t \in Threads :
          (pc[t] = "lc_read" /\ pc'[t] # "lc_read" /\ file_.open)
              => call[t].index < Len(directory_)]_vars

\* C27: every call of the loader and every call on a handle that a thread has
\* begun returns: no thread waits for file_mutex_, cache_mutex_ or handle_mutex_
\* for ever
C27_EveryCallReturns ==
    \A t \in Threads :
        /\ (pc[t] # "idle") ~> (pc[t] = "idle")
        /\ (hpc[t] # "idle") ~> (hpc[t] = "idle")

\* a thread inside load_chunk waits for file_mutex_, which a thread inside
\* close holds while it waits for cache_mutex_'s critical section
C27_Witness ==
    \E t, u \in Threads :
        /\ t # u
        /\ pc[t] = "lc_read" /\ file_mutex_ = u /\ pc[u] = "close_clear"

\* C10: a successful load_chunk(i) returns the size bytes at offset of entry i
\* of the file that is open when it returns.
C10_ReturnsOpenFile ==
    \A t \in Threads :
        (ret[t].op = "load_chunk" /\ ret[t].ok) => ret[t].data = ret[t].expect

=============================================================================
